---- MODULE Spec2Model ----
(***************************************************************************)
(* Model of solcore/junctions/two_diode_junction.py: the two-diode         *)
(* junction (TwoDiodeData, TwoDiodeJunction) and its solver functions      *)
(* (iv_no_rs, iv2diode).                                                   *)
(*                                                                         *)
(* Numbers.  The code computes in floating point.  The model computes in   *)
(* exact arithmetic over the reals of the form                             *)
(*      c1*exp(e1) + ... + ck*exp(ek)      (ci, ei rational),              *)
(* which is closed under every operation the code applies on the paths     *)
(* that are evaluated here.  A rational is a pair <<n, d>> in lowest terms *)
(* with d > 0; a real is the set of its terms <<c, e>> with c # 0 and      *)
(* pairwise distinct exponents e (the representation is unique, since      *)
(* exponentials of distinct rationals are linearly independent over the    *)
(* rationals).  Temperatures are drawn from perfect cubes so that the      *)
(* power (t / data.t) ** (5/3) stays rational.                             *)
(*                                                                         *)
(* Optional values: None is <<>> and a present value x is <<x>>.           *)
(* Mappings (dict, kwargs, Dataset attrs) are functions from strings.      *)
(***************************************************************************)
EXTENDS Integers, Sequences, FiniteSets, TLC

\* ------------------------------------------------------------------------
\* Rational arithmetic
\* ------------------------------------------------------------------------
Abs(n) == IF n < 0 THEN -n ELSE n

RECURSIVE GCD(_, _)
GCD(a, b) == IF b = 0 THEN a ELSE GCD(b, a % b)

\* n/d in lowest terms.  A zero denominator gives <<1, 0>>, <<-1, 0>> or
\* <<0, 0>>: numpy's inf, -inf and nan of a float64 division by zero.
Rat(n, d) ==
  LET s == IF d < 0 THEN -1 ELSE 1
      g == IF n = 0 /\ d = 0 THEN 1 ELSE GCD(Abs(n), Abs(d))
  IN  <<(s * n) \div g, (s * d) \div g>>

RInt(n) == <<n, 1>>
RZero == RInt(0)
ROne == RInt(1)
RAdd(a, b) == Rat(a[1] * b[2] + b[1] * a[2], a[2] * b[2])
RNeg(a) == <<-a[1], a[2]>>
RSub(a, b) == RAdd(a, RNeg(b))
RMul(a, b) == Rat(a[1] * b[1], a[2] * b[2])
\* Division.  The model's inputs keep every divisor non-zero on the paths the
\* code takes.
RDiv(a, b) == Rat(a[1] * b[2], a[2] * b[1])
RLess(a, b) == a[1] * b[2] < b[1] * a[2]

RECURSIVE RPow(_, _)
RPow(a, k) == IF k = 0 THEN ROne ELSE RMul(a, RPow(a, k - 1))

\* Integer cube root of a perfect cube.
ICbrt(n) == CHOOSE k \in 0..n : k * k * k = n
\* a ** (5/3) for a positive rational a whose numerator and denominator are
\* perfect cubes.
RPow53(a) == RPow(<<ICbrt(a[1]), ICbrt(a[2])>>, 5)

\* ------------------------------------------------------------------------
\* Reals: finite sums of c*exp(e)
\* ------------------------------------------------------------------------
RECURSIVE SumCoef(_, _)
\* Sum of the coefficients of the terms of sequence ts whose exponent is e.
SumCoef(ts, e) ==
  IF ts = <<>> THEN RZero
  ELSE LET h == Head(ts)
       IN  RAdd(IF h[2] = e THEN h[1] ELSE RZero, SumCoef(Tail(ts), e))

\* The real denoted by a sequence of terms: like exponents collected, zero
\* coefficients dropped.
Canon(ts) ==
  LET es == {ts[i][2] : i \in 1..Len(ts)}
  IN  {<<SumCoef(ts, e), e>> : e \in {x \in es : SumCoef(ts, x) # RZero}}

RECURSIVE SetToSeq(_)
SetToSeq(S) ==
  IF S = {} THEN <<>>
  ELSE LET x == CHOOSE y \in S : TRUE IN <<x>> \o SetToSeq(S \ {x})

Zero == {}
FromRat(r) == Canon(<<<<r, RZero>>>>)
\* np.exp of a rational argument.
Exp(r) == {<<ROne, r>>}
Add(x, y) == Canon(SetToSeq(x) \o SetToSeq(y))
Scale(r, x) == Canon(SetToSeq({<<RMul(r, t[1]), t[2]>> : t \in x}))
Neg(x) == Scale(RInt(-1), x)
Sub(x, y) == Add(x, Neg(y))
Mul(x, y) ==
  LET ps == SetToSeq(x \X y)
  IN  Canon([i \in 1..Len(ps) |->
               <<RMul(ps[i][1][1], ps[i][2][1]), RAdd(ps[i][1][2], ps[i][2][2])>>])

\* ------------------------------------------------------------------------
\* Values
\* ------------------------------------------------------------------------
None == <<>>
Some(x) == <<x>>
Val(o) == o[1]
EmptyMap == [k \in {} |-> 0]

\* Physical constants of solcore.constants, in model units.
q == RInt(2)
kb == RInt(1)

\* class TwoDiodeData(NamedTuple)
TwoDiodeData(t, j01, j02, n1, n2, rs, rsh, jsc) ==
  [t |-> t, j01 |-> j01, j02 |-> j02, n1 |-> n1, n2 |-> n2, rs |-> rs,
   rsh |-> rsh, jsc |-> jsc]

\* class TwoDiodeJunction: a frozen dataclass; data is a reference into the
\* heap of TwoDiodeData objects.
TwoDiodeJunction(data, params, options) ==
  [data |-> data, params |-> params, options |-> options]

Return(x) == [kind |-> "return", value |-> x]
Raise(e) == [kind |-> "raise", value |-> e]

\* ------------------------------------------------------------------------
\* The heap of TwoDiodeData objects and the derived-copy operation
\* ------------------------------------------------------------------------
DataFields == {"t", "j01", "j02", "n1", "n2", "rs", "rsh", "jsc"}

\* A faulty _replace: overwrites the object it is called on.
ReplaceInPlace(heap, ref, upd) ==
  [heap |-> [heap EXCEPT ![ref] =
               [f \in DataFields |-> IF f \in DOMAIN upd THEN upd[f] ELSE heap[ref][f]]],
   ref |-> ref]

\* data._replace(**upd): a new tuple with the fields of upd overridden; the
\* object at ref is left as it is.  Yields the heap and the new reference.
_replace(heap, ref, upd) ==
  [heap |-> Append(heap,
               [f \in DataFields |-> IF f \in DOMAIN upd THEN upd[f] ELSE heap[ref][f]]),
   ref |-> Len(heap) + 1]

\* ------------------------------------------------------------------------
\* from_reference
\* ------------------------------------------------------------------------
\* A faulty extrapolation: the inverse temperatures are added.
ScaledJ01SumOfInverses(band_gap, t, data) ==
  Mul(Scale(RPow(RDiv(t, data.t), 3), data.j01),
      Exp(RMul(RDiv(RMul(RNeg(q), band_gap), RMul(data.n1, kb)),
               RAdd(RDiv(ROne, t), RDiv(ROne, data.t)))))

\* j01 = data.j01 * (t / data.t) ** 3
\*       * np.exp(-q * band_gap / (data.n1 * kb) * (1 / t - 1 / data.t))
ScaledJ01(band_gap, t, data) ==
  Mul(Scale(RPow(RDiv(t, data.t), 3), data.j01),
      Exp(RMul(RDiv(RMul(RNeg(q), band_gap), RMul(data.n1, kb)),
               RSub(RDiv(ROne, t), RDiv(ROne, data.t)))))

\* j02 = data.j02 * (t / data.t) ** (5.0 / 3.0)
\*       * np.exp(-q * band_gap / (data.n2 * kb) * (1 / t - 1 / data.t))
ScaledJ02(band_gap, t, data) ==
  Mul(Scale(RPow53(RDiv(t, data.t)), data.j02),
      Exp(RMul(RDiv(RMul(RNeg(q), band_gap), RMul(data.n2, kb)),
               RSub(RDiv(ROne, t), RDiv(ROne, data.t)))))

\* A ChainMap with the caller's mapping searched first.
ChainMapCallerFirst(band_gap, data, params) ==
  <<IF params # None THEN Val(params) ELSE EmptyMap,
    [band_gap |-> band_gap, t_ref |-> data.t]>>

\* parameters = ChainMap({"band_gap": band_gap, "t_ref": data.t},
\*                       params if params is not None else {})
\* A ChainMap is the sequence of its maps, in search order.
ChainMap(band_gap, data, params) ==
  <<[band_gap |-> band_gap, t_ref |-> data.t],
    IF params # None THEN Val(params) ELSE EmptyMap>>

\* mapping[key] on a ChainMap (or on a dict, a ChainMap of one map): the value
\* in the first map that has the key; None stands for KeyError.
RECURSIVE GetItem(_, _)
GetItem(maps, key) ==
  IF maps = <<>> THEN None
  ELSE IF key \in DOMAIN Head(maps) THEN Some(Head(maps)[key])
  ELSE GetItem(Tail(maps), key)

\* A faulty from_reference that resets the series resistance.
FromReferenceDropRs(band_gap, t, data) ==
  [t |-> t, j01 |-> ScaledJ01(band_gap, t, data),
   j02 |-> ScaledJ02(band_gap, t, data), rs |-> RZero]

\* The fields from_reference overrides: data._replace(t=t, j01=j01, j02=j02)
FromReferenceUpdate(band_gap, t, data) ==
  [t |-> t, j01 |-> ScaledJ01(band_gap, t, data),
   j02 |-> ScaledJ02(band_gap, t, data)]

\* ------------------------------------------------------------------------
\* The solver functions
\* ------------------------------------------------------------------------
\* The two-diode equation at one voltage:
\*   j01 * (exp(q v / (n1 kb t)) - 1) + j02 * (exp(q v / (n2 kb t)) - 1)
\*   + v / rsh - jsc
TwoDiodeCurrent(v, data) ==
  Sub(Add(Add(Mul(data.j01,
                  Sub(Exp(RDiv(RMul(q, v), RMul(RMul(data.n1, kb), data.t))),
                      FromRat(ROne))),
              Mul(data.j02,
                  Sub(Exp(RDiv(RMul(q, v), RMul(RMul(data.n2, kb), data.t))),
                      FromRat(ROne)))),
          FromRat(RDiv(v, data.rsh))),
      Val(data.jsc))

\* iv_no_rs(v, data): elementwise over the voltage array.  With data.jsc None
\* the subtraction "- data.jsc" raises TypeError.
iv_no_rs(v, data) ==
  IF data.jsc = None THEN Raise(<<"TypeError">>)
  ELSE Return([i \in 1..Len(v) |-> TwoDiodeCurrent(v[i], data)])

RECURSIVE RMin(_)
RMin(v) ==
  IF Len(v) = 1 THEN v[1]
  ELSE LET m == RMin(Tail(v)) IN IF RLess(v[1], m) THEN v[1] ELSE m

RECURSIVE RMax(_)
RMax(v) ==
  IF Len(v) = 1 THEN v[1]
  ELSE LET m == RMax(Tail(v)) IN IF RLess(m, v[1]) THEN v[1] ELSE m

\* jguess = np.clip(current, np.min(v) / data.rs, np.max(v) / data.rs)
\* The clipped array is handed to the root-finder only; it is kept as the
\* term clip(current, a_min, a_max) with its bounds evaluated.
JGuess(v, data, current) ==
  [clip |-> current, a_min |-> RDiv(RMin(v), data.rs),
   a_max |-> RDiv(RMax(v), data.rs)]

\* One invocation sol = root(fun, jguess, **kwargs), with its answer; fun(j) =
\* j - iv_no_rs(v - data.rs * j, data) is determined by v and data.
RootCall(v, data, current, kwargs, sol) ==
  [fun |-> [v |-> v, data |-> data], x0 |-> JGuess(v, data, current),
   kwargs |-> kwargs, sol |-> sol]

\* msg = f"The IV calculation failed to converge. Solver info:\n{sol}"
ConvergenceMsg(sol) ==
  <<"The IV calculation failed to converge. Solver info:\n", sol>>

\* A faulty iv2diode that falls back to the rs-free current on failure.
Iv2diodeFallback(v, data, kwargs, sol) ==
  LET current == iv_no_rs(v, data)
  IN  IF current.kind = "raise" THEN [out |-> current, roots |-> <<>>]
      ELSE IF data.rs = RZero THEN [out |-> current, roots |-> <<>>]
      ELSE [out |-> IF ~sol.success THEN current ELSE Return(sol.x),
            roots |-> <<RootCall(v, data, current.value, kwargs, sol)>>]

\* A faulty iv2diode without the rs == 0 fast path.
Iv2diodeNoFastPath(v, data, kwargs, sol) ==
  LET current == iv_no_rs(v, data)
  IN  IF current.kind = "raise" THEN [out |-> current, roots |-> <<>>]
      ELSE [out |-> IF ~sol.success
                    THEN Raise(<<"RuntimeError", ConvergenceMsg(sol)>>)
                    ELSE Return(sol.x),
            roots |-> <<RootCall(v, data, current.value, kwargs, sol)>>]

\* iv2diode(v, data, **kwargs).  sol is what scipy.optimize.root answers if it
\* is invoked.  Yields the outcome and the log of root invocations.
iv2diode(v, data, kwargs, sol) ==
  LET current == iv_no_rs(v, data)
  IN  IF current.kind = "raise" THEN [out |-> current, roots |-> <<>>]
      ELSE IF data.rs = RZero THEN [out |-> current, roots |-> <<>>]
      ELSE [out |-> IF ~sol.success
                    THEN Raise(<<"RuntimeError", ConvergenceMsg(sol)>>)
                    ELSE Return(sol.x),
            roots |-> <<RootCall(v, data, current.value, kwargs, sol)>>]

\* ------------------------------------------------------------------------
\* Quantum efficiency and short-circuit current
\* ------------------------------------------------------------------------
\* An absorption DataArray is [wavelength, position, values], values[w][p]
\* the absorbed fraction at wavelength index w and position index p.
RECURSIVE Integrate(_, _)
\* xarray's integrate: the trapezoidal rule of ys over the coordinate xs.
Integrate(ys, xs) ==
  IF Len(xs) < 2 THEN RZero
  ELSE RAdd(RMul(RSub(xs[2], xs[1]), RDiv(RAdd(ys[1], ys[2]), RInt(2))),
            Integrate(Tail(ys), Tail(xs)))

\* light_source.spectrum(wavelength, output_units="photon_flux_per_m") of the
\* external light source: a photon flux per wavelength sample.
Spectrum(light_source, wavelength) ==
  [i \in 1..Len(wavelength) |-> light_source.photon_flux]

\* iv_parameters of the junction base class: the curve parameters as a
\* mapping; each value is a term over the voltage and current arrays.
PerformanceKeys == {"Voc", "Isc", "FF", "Vmpp", "Impp", "Pmpp", "eta"}
iv_parameters(voltage, current) ==
  [k \in PerformanceKeys |-> <<k, voltage, current>>]

\* solve_qe(absorption): eqe = absorption.integrate("position"),
\* iqe = ones_like(eqe).  A None absorption has no integrate attribute.
solve_qe(absorption) ==
  IF absorption = None THEN Raise(<<"AttributeError">>)
  ELSE LET a == Val(absorption)
           eqe == [w \in 1..Len(a.wavelength) |->
                     Integrate(a.values[w], a.position)]
       IN  Return([eqe |-> [wavelength |-> a.wavelength, values |-> eqe],
                   iqe |-> [wavelength |-> a.wavelength,
                            values |-> [w \in 1..Len(a.wavelength) |-> ROne]]])

\* _get_jsc(absorption, light_source).  Yields the current and the number of
\* spectrum queries made.
_get_jsc(absorption, light_source) ==
  IF absorption = None \/ light_source = None
  THEN [value |-> Zero, spectrum |-> 0]
  ELSE LET a == Val(absorption)
           sp == Spectrum(Val(light_source), a.wavelength)
           eqe == solve_qe(absorption).value.eqe.values
           prod == [w \in 1..Len(a.wavelength) |-> RMul(eqe[w], sp[w])]
       IN  [value |-> FromRat(RMul(q, Integrate(prod, a.wavelength))),
            spectrum |-> 1]

\* A faulty resolution that always derives the current from the optics.
ResolveJscAlwaysDerive(data, absorption, light_source) ==
  LET r == _get_jsc(absorption, light_source)
  IN  [value |-> r.value, getJsc |-> 1, spectrum |-> r.spectrum]

\* jsc = self.data.jsc if self.data.jsc is not None
\*       else self._get_jsc(absorption, light_source)
\* Yields the current and the numbers of _get_jsc calls and spectrum queries.
ResolveJsc(data, absorption, light_source) ==
  IF data.jsc # None
  THEN [value |-> Val(data.jsc), getJsc |-> 0, spectrum |-> 0]
  ELSE LET r == _get_jsc(absorption, light_source)
       IN  [value |-> r.value, getJsc |-> 1, spectrum |-> r.spectrum]

\* A faulty guard that always derives the curve parameters.
CurveParametersAlways(jsc, voltage, i) == iv_parameters(voltage, i)

\* parameters = {} if jsc == 0.0 else self.iv_parameters(voltage, current.values)
CurveParameters(jsc, voltage, i) ==
  IF jsc = Zero THEN EmptyMap ELSE iv_parameters(voltage, i)

\* The end of solve_iv, once iv2diode has answered r:
\*   current = xr.DataArray(i, dims=["voltage"], coords={"voltage": voltage})
\*   parameters = {} if jsc == 0.0 else self.iv_parameters(...)
\*   return xr.Dataset({"current": current}, attrs=parameters)
\* An exception of iv2diode propagates.
SolveIvReturn(rep, voltage, jsc, r) ==
  [heap |-> rep.heap, jsc |-> Some(jsc.value), getJsc |-> jsc.getJsc,
   spectrum |-> jsc.spectrum,
   out |-> IF r.out.kind = "raise" THEN r.out
           ELSE Return(
             [current |-> [voltage |-> voltage, values |-> r.out.value],
              attrs |-> CurveParameters(jsc.value, voltage, r.out.value)]),
   solver |-> <<rep.heap[rep.ref]>>, roots |-> r.roots]

\* i = iv2diode(voltage, self.data._replace(jsc=jsc), **self.options)
\* rep is the heap and reference after _replace.  "**self.options" raises
\* TypeError when options is None (the positional arguments, so _replace,
\* have been evaluated by then).
SolveIvCall(rep, self, voltage, jsc, sol) ==
  IF self.options = None
  THEN [heap |-> rep.heap, jsc |-> Some(jsc.value), getJsc |-> jsc.getJsc,
        spectrum |-> jsc.spectrum, out |-> Raise(<<"TypeError">>),
        solver |-> <<>>, roots |-> <<>>]
  ELSE SolveIvReturn(rep, voltage, jsc,
                     iv2diode(voltage, rep.heap[rep.ref], Val(self.options), sol))

SolveIvWith(heap, self, voltage, jsc, sol) ==
  SolveIvCall(_replace(heap, self.data, [jsc |-> Some(jsc.value)]), self,
              voltage, jsc, sol)

\* solve_iv(self, voltage, absorption, light_source) on the heap of data
\* objects; sol is the root-finder's answer if it is invoked.  Yields the heap
\* after the call's allocations, the outcome, the resolved jsc, the data
\* handed to iv2diode (if it was invoked), the root-finder invocations and
\* the numbers of _get_jsc calls and spectrum queries.
solve_iv(heap, self, voltage, absorption, light_source, sol) ==
  SolveIvWith(heap, self, voltage,
              ResolveJsc(heap[self.data], absorption, light_source), sol)

\* A faulty solve_equilibrium that returns an empty result.
SolveEquilibriumEmpty(self) == Return(EmptyMap)

\* solve_equilibrium(self): raise NotImplementedError
solve_equilibrium(self) == Raise(<<"NotImplementedError">>)

\* solve_short_circuit(self, absorption, light_source): raise NotImplementedError
solve_short_circuit(self, absorption, light_source) ==
  Raise(<<"NotImplementedError">>)

\* ------------------------------------------------------------------------
\* Inputs
\* ------------------------------------------------------------------------
MaxJunctions == 2

Temps == {RInt(1), RInt(8)}
BandGaps == {ROne}

\* The TwoDiodeData objects a caller constructs.  The defaults' shape is kept
\* (n1 = 1, n2 = 2, rs = 0, jsc = None), magnitudes are in model units.
ReferenceData ==
  {TwoDiodeData(RInt(8), FromRat(ROne), FromRat(ROne), ROne, RInt(2), rs, RInt(4), jsc) :
     rs \in {RZero, ROne},
     jsc \in {None, Some(Zero), Some(FromRat(ROne))}}

VoltageArrays == {<<RZero>>, <<RZero, ROne>>}

UniformAbsorption(a) ==
  [wavelength |-> <<RInt(1), RInt(2)>>, position |-> <<RZero, ROne>>,
   values |-> <<<<a, a>>, <<a, a>>>>]
Absorptions == {None, Some(UniformAbsorption(RZero)), Some(UniformAbsorption(Rat(1, 2)))}
LightSources == {None, Some([photon_flux |-> RInt(2)])}

CallerParams == [band_gap |-> RInt(5), t_ref |-> RInt(27), thickness |-> RInt(3)]
ParamsChoices == {None, Some([thickness |-> RInt(3)]), Some(CallerParams)}
OptionsChoices == {None, Some([method |-> "lm"])}
KwargsChoices == {EmptyMap, [method |-> "lm"]}

\* What scipy.optimize.root may answer for a voltage array v: a converged
\* solution or a failure, with its status message.
RootResults(v) ==
  {[success |-> TRUE, x |-> [i \in 1..Len(v) |-> c], message |-> "The solution converged."] :
     c \in {Zero, FromRat(RInt(-1))}}
  \cup {[success |-> FALSE, x |-> [i \in 1..Len(v) |-> Zero],
         message |-> "The iteration is not making good progress."]}

\* The answers worth distinguishing for a call on v and data: with rs = 0 the
\* root-finder is not consulted, and one answer stands for all of them.
RootAnswers(v, data) ==
  IF data.rs = RZero
  THEN {[success |-> TRUE, x |-> [i \in 1..Len(v) |-> Zero],
         message |-> "The solution converged."]}
  ELSE RootResults(v)

\* ------------------------------------------------------------------------
\* State
\* ------------------------------------------------------------------------
VARIABLES
  params,     \* the params mapping the caller holds (or None)
  options,    \* the options mapping the caller holds (or None)
  datas,      \* the live TwoDiodeData objects, by reference
  junctions,  \* the live TwoDiodeJunction objects, by reference
  last        \* the call just made: its arguments, what it did, its outcome

vars == <<params, options, datas, junctions, last>>

NoCall ==
  [op |-> "none", self |-> 0, data |-> 0, band_gap |-> RZero, t |-> RZero,
   voltage |-> <<>>, absorption |-> None, light_source |-> None,
   kwargs |-> EmptyMap, out |-> Return(None), jsc |-> None, solver |-> <<>>,
   roots |-> <<>>, getJsc |-> 0, spectrum |-> 0]

\* The caller has constructed one TwoDiodeData and holds its params and
\* options; no junction exists yet.
Init ==
  /\ params \in ParamsChoices
  /\ options \in OptionsChoices
  /\ datas \in {<<d>> : d \in ReferenceData}
  /\ junctions = <<>>
  /\ last = NoCall

Idle == last.op = "none"

\* TwoDiodeJunction(data, params, options): the dataclass constructor.  A
\* mapping is held as the sequence of its maps (a dict is one map).
NewJunction ==
  /\ Idle
  /\ Len(junctions) < MaxJunctions
  /\ \E d \in 1..Len(datas) :
       /\ junctions' = Append(junctions,
            TwoDiodeJunction(d, IF params = None THEN None ELSE Some(<<Val(params)>>),
                             options))
       /\ last' = [NoCall EXCEPT !.op = "TwoDiodeJunction",
                                 !.self = Len(junctions) + 1, !.data = d]
  /\ UNCHANGED <<params, options, datas>>

\* TwoDiodeJunction.from_reference(band_gap, t, data, params, options)
FromReference ==
  /\ Idle
  /\ Len(junctions) < MaxJunctions
  /\ \E band_gap \in BandGaps, t \in Temps, d \in 1..Len(datas) :
       \E rep \in {_replace(datas, d, FromReferenceUpdate(band_gap, t, datas[d]))},
          parameters \in {ChainMap(band_gap, datas[d], params)} :
           /\ datas' = rep.heap
           /\ junctions' = Append(junctions,
                TwoDiodeJunction(rep.ref, Some(parameters), options))
           /\ last' = [NoCall EXCEPT !.op = "from_reference",
                                     !.self = Len(junctions) + 1, !.data = d,
                                     !.band_gap = band_gap, !.t = t]
  /\ UNCHANGED <<params, options>>

\* junction.solve_iv(voltage, absorption, light_source).  The derived copy of
\* the data made for the solver is released when the call returns.
SolveIv ==
  /\ Idle
  /\ \E s \in 1..Len(junctions), voltage \in VoltageArrays,
        absorption \in Absorptions, light_source \in LightSources :
       \E sol \in RootAnswers(voltage, datas[junctions[s].data]) :
         \E r \in {solve_iv(datas, junctions[s], voltage, absorption, light_source, sol)} :
             /\ datas' = SubSeq(r.heap, 1, Len(datas))
             /\ last' = [NoCall EXCEPT !.op = "solve_iv", !.self = s,
                                       !.voltage = voltage,
                                       !.absorption = absorption,
                                       !.light_source = light_source,
                                       !.out = r.out, !.jsc = r.jsc,
                                       !.solver = r.solver, !.roots = r.roots,
                                       !.getJsc = r.getJsc,
                                       !.spectrum = r.spectrum]
  /\ UNCHANGED <<params, options, junctions>>

\* junction.solve_qe(absorption, light_source)
SolveQe ==
  /\ Idle
  /\ \E s \in 1..Len(junctions), absorption \in Absorptions,
        light_source \in LightSources :
       last' = [NoCall EXCEPT !.op = "solve_qe", !.self = s,
                              !.absorption = absorption,
                              !.light_source = light_source,
                              !.out = solve_qe(absorption)]
  /\ UNCHANGED <<params, options, datas, junctions>>

\* junction.solve_equilibrium()
SolveEquilibrium ==
  /\ Idle
  /\ \E s \in 1..Len(junctions) :
       last' = [NoCall EXCEPT !.op = "solve_equilibrium", !.self = s,
                              !.out = solve_equilibrium(junctions[s])]
  /\ UNCHANGED <<params, options, datas, junctions>>

\* junction.solve_short_circuit(absorption, light_source)
SolveShortCircuit ==
  /\ Idle
  /\ \E s \in 1..Len(junctions), absorption \in Absorptions,
        light_source \in LightSources :
       last' = [NoCall EXCEPT !.op = "solve_short_circuit", !.self = s,
                              !.absorption = absorption,
                              !.light_source = light_source,
                              !.out = solve_short_circuit(junctions[s], absorption,
                                                          light_source)]
  /\ UNCHANGED <<params, options, datas, junctions>>

\* iv2diode(v, data, **kwargs) called directly
Iv2diode ==
  /\ Idle
  /\ \E d \in 1..Len(datas), v \in VoltageArrays, kwargs \in KwargsChoices :
       \E sol \in RootAnswers(v, datas[d]) :
         \E r \in {iv2diode(v, datas[d], kwargs, sol)} :
             last' = [NoCall EXCEPT !.op = "iv2diode", !.data = d,
                                    !.voltage = v, !.kwargs = kwargs,
                                    !.out = r.out, !.roots = r.roots]
  /\ UNCHANGED <<params, options, datas, junctions>>

\* iv_no_rs(v, data) called directly
IvNoRs ==
  /\ Idle
  /\ \E d \in 1..Len(datas), v \in VoltageArrays :
       last' = [NoCall EXCEPT !.op = "iv_no_rs", !.data = d, !.voltage = v,
                              !.out = iv_no_rs(v, datas[d])]
  /\ UNCHANGED <<params, options, datas, junctions>>

\* The caller takes the outcome of the call (the result or the exception)
\* and goes on: the program is single-threaded and every call is synchronous.
Proceed ==
  /\ ~Idle
  /\ last' = NoCall
  /\ UNCHANGED <<params, options, datas, junctions>>

Next ==
  \/ NewJunction
  \/ FromReference
  \/ SolveIv
  \/ SolveQe
  \/ SolveEquilibrium
  \/ SolveShortCircuit
  \/ Iv2diode
  \/ IvNoRs
  \/ Proceed

Spec == Init /\ [][Next]_vars

\* ------------------------------------------------------------------------
\* Properties
\* ------------------------------------------------------------------------
\* The junction and the data the last call was made on.
Self == junctions[last.self]
SelfData == datas[Self.data]
ArgData == datas[last.data]
IsRaise(out, name) == out.kind = "raise" /\ out.value[1] = name

\* C1 (as claimed): a solve_iv without absorption or without light source, on
\* any junction whose data has no jsc (default params and options included),
\* completes with a zero short-circuit current and none of the performance
\* parameters among the result's attributes.  Non-convergence of the
\* root-finder (rs # 0) is set aside: that failure is the solver's contract.
C1_DarkSolveIvCompletes ==
  (/\ last.op = "solve_iv"
   /\ SelfData.jsc = None
   /\ (last.absorption = None \/ last.light_source = None)
   /\ ~IsRaise(last.out, "RuntimeError"))
  => /\ last.out.kind = "return"
     /\ last.jsc = Some(Zero)
     /\ DOMAIN last.out.value.attrs \cap PerformanceKeys = {}

\* C2: when the root-finder reports success = FALSE, iv2diode raises a
\* RuntimeError whose message embeds the solver's answer and returns nothing;
\* the root-finder is invoked at most once per call and exactly once here; out
\* of solve_iv the same error propagates and no Dataset is returned.
C2_NonConvergenceIsFatal ==
  last.op \in {"iv2diode", "solve_iv"} =>
    /\ Len(last.roots) <= 1
    /\ \A i \in DOMAIN last.roots :
         ~last.roots[i].sol.success =>
           last.out = Raise(<<"RuntimeError", ConvergenceMsg(last.roots[i].sol)>>)

C2_Witness ==
  /\ last.op = "solve_iv"
  /\ Len(last.roots) = 1
  /\ ~last.roots[1].sol.success
  /\ IsRaise(last.out, "RuntimeError")

\* C3: with data.rs = 0, iv2diode(v, data, **kwargs) yields exactly what
\* iv_no_rs(v, data) yields, whatever the kwargs, and the root-finder is not
\* invoked (so the call cannot end in the non-convergence error).
C3_ZeroRsIsExplicit ==
  (last.op = "iv2diode" /\ ArgData.rs = RZero) =>
    /\ last.out = iv_no_rs(last.voltage, ArgData)
    /\ last.roots = <<>>
    /\ ~IsRaise(last.out, "RuntimeError")

C3_Witness ==
  /\ last.op = "iv2diode"
  /\ ArgData.rs = RZero
  /\ last.kwargs # EmptyMap
  /\ last.out.kind = "return"
  /\ Len(last.out.value) = 2

\* C4: in solve_iv a jsc set in the junction's data takes precedence: the
\* solver gets exactly that jsc and neither _get_jsc nor the light source's
\* spectrum is called, whatever absorption and light source are passed; only
\* with data.jsc unset is the jsc that of _get_jsc(absorption, light_source).
\* (The solver is invoked whenever the options are a mapping.)
C4_PrecomputedJscFirst ==
  last.op = "solve_iv" =>
    /\ Self.options # None => Len(last.solver) = 1
    /\ IF SelfData.jsc # None
       THEN /\ last.getJsc = 0
            /\ last.spectrum = 0
            /\ \A i \in DOMAIN last.solver : last.solver[i].jsc = SelfData.jsc
       ELSE /\ last.getJsc = 1
            /\ \A i \in DOMAIN last.solver :
                 last.solver[i].jsc =
                   Some(_get_jsc(last.absorption, last.light_source).value)

C4_Witness ==
  /\ last.op = "solve_iv"
  /\ SelfData.jsc = Some(FromRat(ROne))
  /\ last.absorption = Some(UniformAbsorption(Rat(1, 2)))
  /\ last.light_source # None
  /\ Len(last.solver) = 1
  /\ last.out.kind = "return"

\* C5: the Dataset solve_iv returns has empty attributes exactly when the
\* resolved jsc is zero (also a precomputed 0 with absorption and a light
\* source given), and otherwise the mapping iv_parameters(voltage, current) of
\* the solved current.
C5_ParametersSkippedIffDark ==
  (last.op = "solve_iv" /\ last.out.kind = "return") =>
    /\ last.jsc = Some(Zero) => last.out.value.attrs = EmptyMap
    /\ last.jsc # Some(Zero) =>
         /\ last.out.value.attrs =
              iv_parameters(last.voltage, last.out.value.current.values)
         /\ last.out.value.attrs # EmptyMap

C5_Witness ==
  /\ last.op = "solve_iv"
  /\ last.out.kind = "return"
  /\ SelfData.jsc = Some(Zero)
  /\ last.absorption = Some(UniformAbsorption(Rat(1, 2)))
  /\ last.light_source # None
  /\ last.out.value.attrs = EmptyMap

\* C6: no step changes an object that exists: every TwoDiodeData and every
\* TwoDiodeJunction constructed so far keeps all its fields through any call
\* (from_reference, solve_iv, solve_qe, iv2diode, iv_no_rs, ...); solve_iv's
\* jsc substitution leaves self.data.jsc as it was and from_reference leaves
\* the reference data as it was.
C6_ObjectsNeverChange ==
  [][/\ \A i \in 1..Len(datas) : Len(datas') >= i /\ datas'[i] = datas[i]
     /\ \A j \in 1..Len(junctions) :
          Len(junctions') >= j /\ junctions'[j] = junctions[j]]_vars

\* The reference data has been used by two from_reference calls and a
\* solve_iv has derived a non-zero jsc for a junction whose data.jsc is unset.
C6_Witness ==
  /\ last.op = "solve_iv"
  /\ Len(datas) = 3
  /\ SelfData.jsc = None
  /\ Self.data > 1
  /\ last.jsc # Some(Zero)
  /\ last.out.kind = "return"

\* C7 (as claimed): in the junction from_reference returns, a 'band_gap' or
\* 't_ref' key of the caller's params yields the caller's value.
C7_CallerKeysOverride ==
  (last.op = "from_reference" /\ params # None) =>
    \A k \in {"band_gap", "t_ref"} \cap DOMAIN Val(params) :
      GetItem(Val(Self.params), k) = Some(Val(params)[k])

\* C7 (amended): in the junction from_reference returns, 'band_gap' yields the
\* band_gap argument and 't_ref' the reference data's temperature, whether or
\* not the caller's params hold these keys; every other key of the caller's
\* params yields the caller's value.
C7_DerivedKeysOverride ==
  last.op = "from_reference" =>
    /\ GetItem(Val(Self.params), "band_gap") = Some(last.band_gap)
    /\ GetItem(Val(Self.params), "t_ref") = Some(ArgData.t)
    /\ params # None =>
         \A k \in DOMAIN Val(params) \ {"band_gap", "t_ref"} :
           GetItem(Val(Self.params), k) = Some(Val(params)[k])

C7_Witness ==
  /\ last.op = "from_reference"
  /\ params # None
  /\ "band_gap" \in DOMAIN Val(params)
  /\ Val(params)["band_gap"] # last.band_gap
  /\ "thickness" \in DOMAIN Val(params)

\* C8: from_reference changes only t, j01 and j02: the new junction's data has
\* the target temperature and the reference's n1, n2, rs, rsh and jsc, and its
\* params record the band_gap argument and the reference temperature as t_ref
\* when the caller's params do not hold those keys.
C8_FromReferenceFrame ==
  last.op = "from_reference" =>
    /\ SelfData.t = last.t
    /\ \A f \in {"n1", "n2", "rs", "rsh", "jsc"} : SelfData[f] = ArgData[f]
    /\ (params = None \/ {"band_gap", "t_ref"} \cap DOMAIN Val(params) = {}) =>
         /\ GetItem(Val(Self.params), "band_gap") = Some(last.band_gap)
         /\ GetItem(Val(Self.params), "t_ref") = Some(ArgData.t)

C8_Witness ==
  /\ last.op = "from_reference"
  /\ last.t # ArgData.t
  /\ ArgData.rs # RZero
  /\ ArgData.jsc # None
  /\ SelfData.j01 # ArgData.j01
  /\ params = Some([thickness |-> RInt(3)])

\* C9: from_reference with t equal to the reference temperature reproduces
\* the reference: j01 and j02, and so every field of the data, are unchanged.
C9_IdentityAtReference ==
  (last.op = "from_reference" /\ last.t = ArgData.t) =>
    /\ SelfData.j01 = ArgData.j01
    /\ SelfData.j02 = ArgData.j02
    /\ SelfData = ArgData

C9_Witness ==
  /\ last.op = "from_reference"
  /\ last.t = ArgData.t
  /\ last.band_gap # RZero
  /\ ArgData.j01 # Zero
  /\ ArgData.j02 # Zero
  /\ Self.data # last.data

\* C10: solve_equilibrium and solve_short_circuit raise NotImplementedError on
\* every junction and for every argument, return nothing and leave the
\* objects as they are.
C10_NotImplemented ==
  [][last'.op \in {"solve_equilibrium", "solve_short_circuit"} =>
       /\ last'.out = Raise(<<"NotImplementedError">>)
       /\ datas' = datas
       /\ junctions' = junctions]_vars

C10_Witness ==
  /\ last.op = "solve_equilibrium"
  /\ IsRaise(last.out, "NotImplementedError")
  /\ Self.options # None

====
